---------------------------- MODULE Spec2Model ----------------------------
(***************************************************************************)
(* Model of src/geocode_listings.py: the batch job that reads the rank-1   *)
(* listing addresses missing from public.locations_cache, geocodes each of *)
(* them and upserts the coordinates under the normalized address key.      *)
(*                                                                         *)
(* Text values are sequences of character codes (9 tab, 32 space, 65 'A',  *)
(* 66 'B', 97 'a').  The SQL NULL of the address column is the one-element *)
(* sequence NULL, which is no text value.  Coordinates are integers.       *)
(***************************************************************************)
EXTENDS Integers, Sequences, FiniteSets, TLC

VARIABLES
    source,          \* rows of marts.unified_listings_vw (owned by another system)
    gmaps_unknown,   \* address keys for which the provider has no candidate
    cache,           \* rows of public.locations_cache (committed)
    now,             \* the clock read by datetime.now() for a committed row
    pc,              \* position of the process: idle, fetch, geocode, lookup, insert,
                     \* summary
    exit_status,     \* exit status of the process, -1 while it has not exited
    conn_status,     \* transaction status of the psycopg2 connection
    addresses,       \* main: the pending list returned by fetch_missing_addresses
    i,               \* main: the loop index of enumerate(addresses, 1)
    response,        \* what gmaps_client.geocode answered in the lookup under way:
                     \* <<>> before the answer, <<resp>> after it
    latlng,          \* main: (lat, lng) of the current address, <<>> for (None, None)
    success_count,   \* main
    fail_count,      \* main
    out,             \* the per-address progress lines printed by main
    fetch_error,     \* whether "Error fetching addresses" was printed in this run
    prev,            \* history: the pending list of the previous run if that run
                     \* cached all of it, <<>> otherwise
    start_cache      \* history: the cache as it was when this run started

vars == <<source, gmaps_unknown, cache, now, pc, exit_status, conn_status,
          addresses, i, response, latlng, success_count, fail_count, out, fetch_error, prev,
          start_cache>>

-----------------------------------------------------------------------------
(* Bounds of the model. *)

\* The listing view holds at most MaxRows rows.
MaxRows == 3
\* Stands for the LIMIT 50 of the query (line 73), scaled to the model's size.
Limit == 2
\* The harness of insert_location stops the clock here.
MaxClock == 3

-----------------------------------------------------------------------------
(* Values. *)

NULL == <<-1>>

SourceNames == {"s1", "s2"}
FilenameDates == {1, 2}
\* NULL, '', ' ', tab, 'A', ' a', 'B'
Addresses == {NULL, <<>>, <<32>>, <<9>>, <<65>>, <<32, 97>>, <<66>>}
\* Source s1 has files of two dates, source s2 a file of the older date.
Rows == {r \in [source_name : SourceNames, filename_date : FilenameDates,
                address : Addresses] : r.source_name = "s2" => r.filename_date = 1}
\* (lat, lng) pairs the provider can return
Coords == {<<40, -74>>, <<41, -73>>}

Range(s) == {s[j] : j \in 1..Len(s)}

-----------------------------------------------------------------------------
(* The SQL functions of the query. *)

RECURSIVE LTrim(_)
LTrim(s) == IF s # <<>> /\ s[1] = 32 THEN LTrim(Tail(s)) ELSE s

RECURSIVE RTrim(_)
RTrim(s) == IF s # <<>> /\ s[Len(s)] = 32 THEN RTrim(SubSeq(s, 1, Len(s) - 1)) ELSE s

\* TRIM(address): removes the leading and trailing spaces (character 32 only).
Trim(s) == RTrim(LTrim(s))

\* UPPER(text)
Upper(s) == [j \in 1..Len(s) |-> IF s[j] \in 97..122 THEN s[j] - 32 ELSE s[j]]

\* Mutant: the key is upper-cased but not trimmed.
Normalize_NoTrim(a) == Upper(a)

\* UPPER(TRIM(address)) as address_key
Normalize(a) == Upper(Trim(a))

\* The order of text values used by ORDER BY address_key.
RECURSIVE Less(_, _)
Less(a, b) == IF a = <<>> THEN b # <<>>
              ELSE IF b = <<>> THEN FALSE
              ELSE IF a[1] # b[1] THEN a[1] < b[1]
              ELSE Less(Tail(a), Tail(b))

\* ORDER BY address_key (ascending)
RECURSIVE OrderBy(_)
OrderBy(S) == IF S = {} THEN <<>>
              ELSE LET m == CHOOSE x \in S : \A y \in S \ {x} : Less(x, y)
                   IN  <<m>> \o OrderBy(S \ {m})

\* LIMIT n
Take(s, n) == SubSeq(s, 1, IF Len(s) < n THEN Len(s) ELSE n)

\* WHERE address IS NOT NULL AND TRIM(address) != ''
WhereNotBlank(rows) == {r \in rows : r.address # NULL /\ Trim(r.address) # <<>>}

\* DENSE_RANK() OVER(PARTITION BY source_name ORDER BY filename_date DESC)
DenseRank(r, rows) ==
    1 + Cardinality({q.filename_date : q \in {q \in rows :
                        /\ q.source_name = r.source_name
                        /\ q.filename_date > r.filename_date}})

\* WITH ranked AS (...) ... FROM ranked WHERE rnk = 1: the rank is taken among the
\* rows that the WHERE clause of the CTE kept.
Rank1(rows) == {r \in WhereNotBlank(rows) : DenseRank(r, WhereNotBlank(rows)) = 1}

\* SELECT address_key FROM public.locations_cache
CacheKeys(c) == {row.address_key : row \in c}

\* Mutant: the anti-join compares the raw address with the cache keys.
MissingKeys_RawCompare(rows, c) ==
    {Normalize(r.address) : r \in {r \in Rank1(rows) : r.address \notin CacheKeys(c)}}

\* SELECT DISTINCT UPPER(TRIM(address)) ... WHERE rnk = 1 AND UPPER(TRIM(address)) NOT IN (...)
MissingKeys(rows, c) ==
    {Normalize(r.address) : r \in {r \in Rank1(rows) : Normalize(r.address) \notin CacheKeys(c)}}

\* The whole query: ... ORDER BY address_key LIMIT 50
FetchQuery(rows, c) == Take(OrderBy(MissingKeys(rows, c)), Limit)

-----------------------------------------------------------------------------
(* fetch_missing_addresses *)

\* The query runs (query_ok) and its rows are returned in order, or the
\* exception is caught and the empty list is returned.
FetchMissingAddresses(query_ok) == IF query_ok THEN FetchQuery(source, cache) ELSE <<>>

-----------------------------------------------------------------------------
(* geocode_address *)

\* What gmaps_client.geocode does: it raises, or it returns a list of candidates.
Responses == [raised : {TRUE}, candidates : {<<>>}]
             \cup [raised : {FALSE}, candidates : {<<>>} \cup {<<c>> : c \in Coords}
                                                  \cup {p \in Coords \X Coords : p[1] # p[2]}]

\* The responses the provider can give for an address key.
ResponsesFor(address) ==
    {resp \in Responses : address \in gmaps_unknown => (resp.raised \/ resp.candidates = <<>>)}

\* The first candidate's (lat, lng), or <<>> for (None, None).
GeocodeAddress(resp) ==
    IF resp.raised THEN <<>>
    ELSE IF Len(resp.candidates) > 0 THEN resp.candidates[1]
    ELSE <<>>

-----------------------------------------------------------------------------
(* insert_location *)

\* Mutant: a plain INSERT into a table without the conflict clause.
Upsert_PlainInsert(c, row) == c \cup {row}

\* INSERT ... ON CONFLICT (address_key) DO UPDATE SET latitude, longitude, updated_at
Upsert(c, row) == {r \in c : r.address_key # row.address_key} \cup {row}

\* cur.execute and conn.commit raise nothing: the database accepts the write
\* (db_ok) and the connection's transaction is not in error.
InsertSucceeds(db_ok) == db_ok /\ conn_status # "inerror"

\* Mutant: the except branch does not roll back; the transaction stays in error.
Rollback_Missing == "inerror"

\* conn.rollback() in the except branch
Rollback == "idle"

\* Mutant: latitude and longitude are bound to the wrong columns.
InsertLocation_Swapped(address_key, latitude, longitude, db_ok) ==
    IF InsertSucceeds(db_ok)
    THEN /\ now' = now + 1
         /\ cache' = Upsert(cache, [address_key |-> address_key, latitude |-> longitude,
                                    longitude |-> latitude, updated_at |-> now + 1])
         /\ conn_status' = "idle"
    ELSE /\ now' = now
         /\ cache' = cache
         /\ conn_status' = Rollback

\* The whole function; its return value is InsertSucceeds(db_ok).
InsertLocation(address_key, latitude, longitude, db_ok) ==
    IF InsertSucceeds(db_ok)
    THEN /\ now' = now + 1
         /\ cache' = Upsert(cache, [address_key |-> address_key, latitude |-> latitude,
                                    longitude |-> longitude, updated_at |-> now + 1])
         /\ conn_status' = "idle"
    ELSE /\ now' = now
         /\ cache' = cache
         /\ conn_status' = Rollback

-----------------------------------------------------------------------------
(* main *)

\* What main prints for one address: the address, what became of it ("cached",
\* "failed to cache" or "failed to geocode") and the coordinates main holds.
Line(address_key, result, coords) ==
    [address_key |-> address_key, result |-> result, latlng |-> coords]

\* Mutant: the loop stops one address early.
EndIteration_OffByOne ==
    IF i + 1 < Len(addresses)
    THEN /\ i' = i + 1
         /\ pc' = "geocode"
    ELSE /\ i' = i
         /\ pc' = "summary"

\* The end of one iteration of "for i, address_key in enumerate(addresses, 1)".
EndIteration ==
    IF i < Len(addresses)
    THEN /\ i' = i + 1          \* time.sleep(0.1), next address
         /\ pc' = "geocode"
    ELSE /\ i' = i
         /\ pc' = "summary"

\* The process starts: get_db_connection and get_gmaps_client return, or one
\* of them calls sys.exit(1).
Startup(ok) ==
    /\ pc = "idle"
    /\ IF ok
       THEN /\ pc' = "fetch"
            /\ conn_status' = "idle"
            /\ addresses' = <<>>
            /\ i' = 0
            /\ response' = <<>>
            /\ latlng' = <<>>
            /\ success_count' = 0
            /\ fail_count' = 0
            /\ out' = <<>>
            /\ fetch_error' = FALSE
            /\ prev' = IF fail_count = 0 THEN addresses ELSE <<>>
            /\ start_cache' = cache
            /\ exit_status' = -1
       ELSE /\ exit_status' = 1
            /\ UNCHANGED <<pc, conn_status, addresses, i, response, latlng, success_count,
                           fail_count, out, fetch_error, prev, start_cache>>
    /\ UNCHANGED <<source, gmaps_unknown, cache, now>>

\* addresses = fetch_missing_addresses(conn); if not addresses: ... return
Fetch(query_ok) ==
    /\ pc = "fetch"
    /\ addresses' = FetchMissingAddresses(query_ok)
    /\ fetch_error' = ~query_ok
    /\ IF addresses' = <<>>
       THEN /\ pc' = "idle"
            /\ conn_status' = "closed"
            /\ exit_status' = 0
            /\ i' = i
       ELSE /\ pc' = "geocode"
            /\ conn_status' = "intrans"
            /\ exit_status' = exit_status
            /\ i' = 1
    /\ UNCHANGED <<source, gmaps_unknown, cache, now, response, latlng, success_count,
                   fail_count, out, prev, start_cache>>

\* Mutant: a failed lookup ends the loop.
LookupFailed_Abort ==
    /\ fail_count' = fail_count + 1
    /\ out' = Append(out, Line(addresses[i], "failed to geocode", <<>>))
    /\ i' = i
    /\ pc' = "summary"
    /\ UNCHANGED <<success_count, cache, now, conn_status>>

\* else: fail_count += 1 (the lookup returned (None, None))
LookupFailed ==
    /\ fail_count' = fail_count + 1
    /\ out' = Append(out, Line(addresses[i], "failed to geocode", <<>>))
    /\ EndIteration
    /\ UNCHANGED <<success_count, cache, now, conn_status>>

\* result = gmaps_client.geocode(full_address): the provider answers the call
\* geocode_address makes for addresses[i].
GmapsGeocode(resp) ==
    /\ pc = "geocode"
    /\ resp \in ResponsesFor(addresses[i])
    /\ response' = <<resp>>
    /\ pc' = "lookup"
    /\ UNCHANGED <<source, gmaps_unknown, cache, now, exit_status, conn_status, addresses,
                   i, latlng, success_count, fail_count, out, fetch_error, prev,
                   start_cache>>

\* The rest of lat, lng = geocode_address(gmaps_client, address_key), and
\* main's test "if lat is not None and lng is not None".
Geocode ==
    /\ pc = "lookup"
    /\ latlng' = GeocodeAddress(response[1])
    /\ response' = <<>>
    /\ IF latlng' # <<>>
       THEN /\ pc' = "insert"
            /\ UNCHANGED <<i, success_count, fail_count, out, cache, now, conn_status>>
       ELSE LookupFailed
    /\ UNCHANGED <<source, gmaps_unknown, exit_status, addresses, fetch_error, prev,
                   start_cache>>

\* if insert_location(conn, address_key, lat, lng): success_count += 1 else: fail_count += 1
Insert(db_ok) ==
    /\ pc = "insert"
    /\ InsertLocation(addresses[i], latlng[1], latlng[2], db_ok)
    /\ IF InsertSucceeds(db_ok)
       THEN /\ success_count' = success_count + 1
            /\ fail_count' = fail_count
            /\ out' = Append(out, Line(addresses[i], "cached", latlng))
       ELSE /\ success_count' = success_count
            /\ fail_count' = fail_count + 1
            /\ out' = Append(out, Line(addresses[i], "failed to cache", latlng))
    /\ EndIteration
    /\ UNCHANGED <<source, gmaps_unknown, exit_status, addresses, response, latlng,
                   fetch_error, prev, start_cache>>

\* The summary is printed and the connection closed.
Summary ==
    /\ pc = "summary"
    /\ pc' = "idle"
    /\ conn_status' = "closed"
    /\ exit_status' = 0
    /\ UNCHANGED <<source, gmaps_unknown, cache, now, addresses, i, response, latlng,
                   success_count, fail_count, out, fetch_error, prev, start_cache>>

-----------------------------------------------------------------------------
(* The job, run again and again by its scheduler over one listing source. *)

RECURSIVE SetsUpTo(_)
SetsUpTo(n) == IF n = 0 THEN {{}}
               ELSE LET P == SetsUpTo(n - 1)
                    IN  P \cup {S \cup {r} : S \in P, r \in Rows}

\* The state before the first run, over one of the given listing sources.
InitOver(sources) ==
    /\ source \in sources
    /\ gmaps_unknown \in SUBSET {Normalize(r.address) : r \in WhereNotBlank(source)}
    /\ cache = {}
    /\ now = 0
    /\ pc = "idle"
    /\ exit_status = -1
    /\ conn_status = "closed"
    /\ addresses = <<>>
    /\ i = 0
    /\ response = <<>>
    /\ latlng = <<>>
    /\ success_count = 0
    /\ fail_count = 0
    /\ out = <<>>
    /\ fetch_error = FALSE
    /\ prev = <<>>
    /\ start_cache = {}

Init == InitOver(SetsUpTo(MaxRows))

Next ==
    \/ \E ok \in BOOLEAN : Startup(ok)
    \/ \E query_ok \in BOOLEAN : Fetch(query_ok)
    \/ \E resp \in Responses : GmapsGeocode(resp)
    \/ Geocode
    \/ \E db_ok \in BOOLEAN : Insert(db_ok)
    \/ Summary

Spec == Init /\ [][Next]_vars

\* The job under fair scheduling: the process and its scheduler keep taking
\* steps, and what can succeed again and again (the start of the process, the
\* query, a lookup that finds candidates, a write) does succeed in the end.
\* It is checked over the sources of one file of one source_name with no NULL
\* address.
LiveInit ==
    InitOver({S \in SetsUpTo(MaxRows) :
                \A r \in S : r.source_name = "s1" /\ r.filename_date = 1 /\ r.address # NULL})

LiveSpec ==
    /\ LiveInit
    /\ [][Next]_vars
    /\ WF_vars(Next)
    /\ SF_vars(Startup(TRUE))
    /\ SF_vars(Fetch(TRUE))
    /\ SF_vars(\E resp \in Responses : GeocodeAddress(resp) # <<>> /\ GmapsGeocode(resp))
    /\ SF_vars(Insert(TRUE))

-----------------------------------------------------------------------------
(* insert_location called on its own, with any key and coordinates, on a     *)
(* connection in any transaction status.                                     *)

Keys == {Normalize(a) : a \in Addresses \ {NULL}}

InitInsert ==
    /\ source = {}
    /\ gmaps_unknown = {}
    /\ cache = {}
    /\ now = 0
    /\ pc = "insert"
    /\ exit_status = -1
    /\ conn_status \in {"idle", "intrans", "inerror"}
    /\ addresses \in {<<k>> : k \in Keys}
    /\ i = 1
    /\ response = <<>>
    /\ latlng \in Coords
    /\ success_count = 0
    /\ fail_count = 0
    /\ out = <<>>
    /\ fetch_error = FALSE
    /\ prev = <<>>
    /\ start_cache = {}

\* One call insert_location(conn, addresses[1], lat, lng); the caller then
\* picks the arguments of its next call.
CallInsertLocation(db_ok, next_key, next_latlng) ==
    /\ pc = "insert"
    /\ now < MaxClock
    /\ InsertLocation(addresses[i], latlng[1], latlng[2], db_ok)
    /\ out' = <<Line(addresses[i], IF InsertSucceeds(db_ok) THEN "cached"
                                   ELSE "failed to cache", latlng)>>
    /\ addresses' = <<next_key>>
    /\ latlng' = next_latlng
    /\ UNCHANGED <<source, gmaps_unknown, pc, exit_status, i, response, success_count,
                   fail_count, fetch_error, prev, start_cache>>

NextInsert ==
    \E db_ok \in BOOLEAN, next_key \in Keys, next_latlng \in Coords :
        CallInsertLocation(db_ok, next_key, next_latlng)

SpecInsert == InitInsert /\ [][NextInsert]_vars

-----------------------------------------------------------------------------
(* Claims about fetch_missing_addresses. *)

\* C1: a step of fetch_missing_addresses returns no key that is in the cache
\* when it runs: for every source address whose normalized key is a cache key,
\* that key is not in the returned list.  And when the previous run had pending
\* addresses and cached every one of them (no failure), the list returned now
\* shares no key with the list of the previous run.
C1_IdempotentResolution ==
    [][pc = "fetch" =>
          /\ \A r \in source :
                (r.address # NULL /\ Normalize(r.address) \in CacheKeys(cache))
                    => Normalize(r.address) \notin Range(addresses')
          /\ Range(addresses') \cap Range(prev) = {}]_vars

\* A second run has just fetched a non-empty list, the run before it cached
\* all of its pending addresses, and a rank-1 source address is in the cache.
C1_Witness ==
    /\ pc = "geocode" /\ i = 1 /\ out = <<>>
    /\ prev # <<>>
    /\ \E r \in Rank1(source) : Normalize(r.address) \in CacheKeys(cache)

\* Characters that are white space: tab, line feed, vertical tab, form feed,
\* carriage return, space.
IsWhitespaceOnly(t) == \A j \in 1..Len(t) : t[j] \in {9, 10, 11, 12, 13, 32}

\* C3: no pending key comes from a null, empty or whitespace-only address (such
\* an address would give an empty or whitespace-only key), and no cache key is
\* the empty string.
C3_NoBlankPending ==
    /\ \A k \in Range(addresses) : ~IsWhitespaceOnly(k)
    /\ <<>> \notin CacheKeys(cache)

\* The rows whose filename_date is the latest among all rows of their source_name.
LatestRows(rows) ==
    {r \in rows : \A q \in rows : q.source_name = r.source_name
                                      => q.filename_date <= r.filename_date}

\* The list as C8 describes it: the latest rows of each source, those with a
\* non-null, non-blank address, normalized, without duplicates and cache keys,
\* ascending, the first Limit.
C8_ClaimedList(rows, c) ==
    Take(OrderBy({Normalize(r.address) : r \in WhereNotBlank(LatestRows(rows))}
                 \ CacheKeys(c)), Limit)

\* C8: a query that runs returns exactly C8_ClaimedList of the source and the cache.
C8_FetchResult ==
    [][(pc = "fetch" /\ ~fetch_error') => addresses' = C8_ClaimedList(source, cache)]_vars

-----------------------------------------------------------------------------
(* Claims about insert_location. *)

RowsOf(c, k) == {r \in c : r.address_key = k}

\* C2: the cache never holds two entries with one address_key.  A successful
\* insert_location on a key that exists leaves the number of entries unchanged
\* and the entry of that key then carries the new latitude, longitude and
\* timestamp; on an absent key it adds exactly one entry, with these values.  (out' holds the line of the call
\* made by the step, addresses and latlng its arguments.)
C2_UpsertOneRowPerKey ==
    /\ [](\A r1 \in cache : \A r2 \in cache : r1.address_key = r2.address_key => r1 = r2)
    /\ [][(pc = "insert" /\ out' # <<>> /\ out'[Len(out')].result = "cached") =>
            LET k == addresses[i]
                new == [address_key |-> k, latitude |-> latlng[1],
                        longitude |-> latlng[2], updated_at |-> now']
            IN  /\ RowsOf(cache', k) = {new}
                /\ k \in CacheKeys(cache) => Cardinality(cache') = Cardinality(cache)
                /\ k \notin CacheKeys(cache) => Cardinality(cache') = Cardinality(cache) + 1
          ]_vars

\* Two calls have succeeded and the second one replaced the entry of the first:
\* one entry, carrying the second timestamp.
C2_Witness ==
    /\ now = 2
    /\ Cardinality(cache) = 1
    /\ \A r \in cache : r.updated_at = 2

\* C6: when insert_location fails (main prints "failed to cache"), the cache
\* is what it was before the call, main counts one failure and no success, the
\* connection is left in no failed transaction, and the loop goes on to the
\* next address or to the summary.
C6_FailedWriteRolledBack ==
    [][(pc = "insert" /\ out' # <<>> /\ out'[Len(out')].result = "failed to cache") =>
          /\ cache' = cache
          /\ fail_count' = fail_count + 1
          /\ success_count' = success_count
          /\ conn_status' # "inerror"
          /\ pc' = IF i < Len(addresses) THEN "geocode" ELSE "summary"
      ]_vars

\* In one run a write failed and the write of a later address succeeded.
C6_Witness ==
    \E j \in 1..Len(out) : \E k \in 1..Len(out) :
        /\ j < k
        /\ out[j].result = "failed to cache"
        /\ out[k].result = "cached"
        /\ out[k].address_key \in CacheKeys(cache)

-----------------------------------------------------------------------------
(* Claims about normalization. *)

SameLetter(x, y) ==
    \/ x = y
    \/ x \in 65..90 /\ y = x + 32
    \/ y \in 65..90 /\ x = y + 32

\* Texts a and b differ only in letter case or in leading/trailing spaces:
\* without la leading and ra trailing spaces of a, and lb and rb of b, they
\* are equal letter by letter up to case.
DifferOnlyInCaseOrOuterSpaces(a, b) ==
    \E la \in 0..Len(a) :
      /\ \A j \in 1..la : a[j] = 32
      /\ \E ra \in 0..(Len(a) - la) :
            /\ \A j \in (Len(a) - ra + 1)..Len(a) : a[j] = 32
            /\ \E lb \in 0..Len(b) :
                  LET n == Len(a) - la - ra
                      rb == Len(b) - lb - n
                  IN  /\ rb >= 0
                      /\ \A j \in 1..lb : b[j] = 32
                      /\ \A j \in (Len(b) - rb + 1)..Len(b) : b[j] = 32
                      /\ \A j \in 1..n : SameLetter(a[la + j], b[lb + j])

\* C4: source addresses that differ only in letter case or leading/trailing
\* spaces give one pending key (no two different pending keys differ only so,
\* and every rank-1 address not yet cached that is represented in the list is
\* represented by one key); a successful write adds exactly the pending key
\* addresses[i] to the keys of the cache; no two cache entries have keys that
\* differ only so; every pending key and every cache key is in normalized form.
C4_OneNormalization ==
    /\ [](/\ \A k1 \in Range(addresses) : \A k2 \in Range(addresses) \ {k1} :
                ~DifferOnlyInCaseOrOuterSpaces(k1, k2)
          /\ \A r1 \in cache : \A r2 \in cache \ {r1} :
                ~DifferOnlyInCaseOrOuterSpaces(r1.address_key, r2.address_key)
          /\ \A k \in Range(addresses) : Normalize(k) = k
          /\ \A r \in cache : Normalize(r.address_key) = r.address_key)
    /\ [][pc = "fetch" =>
            \A r1 \in Rank1(source) : \A r2 \in Rank1(source) :
                DifferOnlyInCaseOrOuterSpaces(r1.address, r2.address) =>
                    \A k \in Range(addresses') :
                        DifferOnlyInCaseOrOuterSpaces(k, r1.address) => k = Normalize(r2.address)
         ]_vars
    /\ [][(pc = "insert" /\ success_count' = success_count + 1) =>
            CacheKeys(cache') = CacheKeys(cache) \cup {addresses[i]}]_vars

\* A run is over in which two different rank-1 addresses that differ only in
\* case or outer spaces were pending, and the cache holds their one key.
C4_Witness ==
    /\ pc = "summary"
    /\ \E r1 \in Rank1(source) : \E r2 \in Rank1(source) :
          /\ r1.address # r2.address
          /\ DifferOnlyInCaseOrOuterSpaces(r1.address, r2.address)
          /\ Normalize(r1.address) \in Range(addresses)
          /\ Cardinality(RowsOf(cache, Normalize(r2.address))) = 1

-----------------------------------------------------------------------------
(* Claims about main. *)

IsFailedLookup(line) == line.result = "failed to geocode"

\* C5: when the provider raised or returned no candidate for addresses[i],
\* geocode_address returns (None, None), main counts exactly one failure and no
\* success, prints the failure for that address, does not go to insert_location,
\* leaves the cache unchanged, and goes on to address i + 1 if there is one (to
\* the summary after the last).
C5_LookupFailureSkipsWrite ==
    [][(pc = "lookup" /\ (response[1].raised \/ response[1].candidates = <<>>)) =>
          /\ latlng' = <<>>
          /\ fail_count' = fail_count + 1
          /\ success_count' = success_count
          /\ out' = Append(out, out'[Len(out')])
          /\ out'[Len(out')].address_key = addresses[i]
          /\ IsFailedLookup(out'[Len(out')])
          /\ cache' = cache
          /\ pc' # "insert"
          /\ i < Len(addresses) => (pc' = "geocode" /\ i' = i + 1)
          /\ i = Len(addresses) => pc' = "summary"
      ]_vars

\* A lookup failed and the address after it was processed and cached.
C5_Witness ==
    \E j \in 1..Len(out) :
        /\ IsFailedLookup(out[j])
        /\ j < Len(out)
        /\ out[j + 1].result = "cached"

\* C7: the pending list has no duplicates, the lines printed so far are those
\* of the first addresses of the list, one line per address and in list order;
\* while address i is being processed exactly i - 1 addresses are done, and the
\* write is reached only with coordinates; the index moves only from i to i + 1
\* and only when the line of address i is printed; each step inside the loop
\* brings the run nearer to the summary and the run is never stuck; at the
\* summary every address is done and success_count + fail_count is the length
\* of the list.  With an empty list the run ends at once, with no lookup and no
\* write.
C7_Measure == 3 * i + (IF pc = "lookup" THEN 1 ELSE IF pc = "insert" THEN 2 ELSE 0)

C7_EveryAddressOnceInOrder ==
    /\ [](/\ \A j \in 1..Len(addresses) : \A k \in 1..Len(addresses) :
                addresses[j] = addresses[k] => j = k
          /\ Len(out) <= Len(addresses)
          /\ \A j \in 1..Len(out) : out[j].address_key = addresses[j]
          /\ success_count + fail_count = Len(out)
          /\ pc \in {"geocode", "lookup", "insert"} =>
                (i \in 1..Len(addresses) /\ Len(out) = i - 1)
          /\ pc = "insert" => latlng \in Coords
          /\ pc \in {"fetch", "geocode", "lookup", "insert", "summary"} => ENABLED Next
          /\ pc = "summary" =>
                /\ addresses # <<>>
                /\ Len(out) = Len(addresses)
                /\ success_count + fail_count = Len(addresses))
    /\ [][/\ (pc \in {"geocode", "lookup", "insert"}) =>
                \/ pc' = "summary" /\ i = Len(addresses)
                \/ /\ pc' \in {"geocode", "lookup", "insert"}
                   /\ C7_Measure' > C7_Measure
          /\ (pc \in {"geocode", "lookup", "insert"} /\ i' # i) =>
                (i' = i + 1 /\ pc' = "geocode" /\ Len(out') = i)
          /\ (pc = "fetch" /\ addresses' = <<>>) =>
                (pc' = "idle" /\ out' = <<>> /\ cache' = cache /\ response' = <<>>)
         ]_vars

\* A run of two addresses is at its summary after one failure and one success.
C7_Witness ==
    /\ pc = "summary"
    /\ Len(addresses) = 2
    /\ success_count = 1
    /\ fail_count = 1

\* C9: during a run the cache changes only in the step of insert_location;
\* the coordinates main holds at that step are the first candidate of the
\* provider's answer for addresses[i]; every entry that was not in the cache at
\* the start of the run has the key of a "cached" line of this run, a key of the
\* pending list, and the coordinates of that line; every key of the start is
\* still a key, and an entry of the start that changed belongs to a key whose
\* lookup succeeded in this run.
C9_CacheChangesOnlyByUpsert ==
    /\ [](/\ \A r \in cache \ start_cache :
                /\ r.address_key \in Range(addresses)
                /\ \E j \in 1..Len(out) :
                      /\ out[j].result = "cached"
                      /\ out[j].address_key = r.address_key
                      /\ out[j].latlng = <<r.latitude, r.longitude>>
          /\ CacheKeys(start_cache) \subseteq CacheKeys(cache)
          /\ \A r \in start_cache \ cache :
                \E j \in 1..Len(out) :
                      /\ out[j].address_key = r.address_key
                      /\ ~IsFailedLookup(out[j]))
    /\ [][/\ pc # "insert" => cache' = cache
          /\ (pc = "lookup" /\ pc' = "insert") => latlng' = response[1].candidates[1]
          /\ (pc = "insert" /\ cache' # cache) =>
                out' = Append(out, Line(addresses[i], "cached", latlng))
         ]_vars

\* A run that started with a non-empty cache is at its summary after a failed
\* lookup and a write.
C9_Witness ==
    /\ pc = "summary"
    /\ start_cache # {}
    /\ cache # start_cache
    /\ \E j \in 1..Len(out) : IsFailedLookup(out[j])

-----------------------------------------------------------------------------
(* Claims about repeated runs. *)

\* C10: every rank-1 source key for which the provider has candidates is
\* eventually a key of the cache.
C10_SelfHealing ==
    \A k \in Keys :
        (k \in {Normalize(r.address) : r \in Rank1(source)} \ gmaps_unknown)
            ~> (k \in CacheKeys(cache))

=============================================================================
